---- MODULE Spec2Model ----
(***************************************************************************)
(* A model of one download session of xdcc.py (XDCCDownloadClient driven   *)
(* by download()): the handshake generator, the DCC offer handling, the    *)
(* data handler with its acknowledgements, the teardown, the timeout       *)
(* watchdog thread and the grace Timer thread.                             *)
(*                                                                         *)
(* Handlers that run on the reactor (event) thread are one action each.    *)
(* The watchdog thread takes one step per sleep; the grace Timer thread    *)
(* runs on_dcc_disconnect when it fires.                                   *)
(*                                                                         *)
(* Spec       one session, handlers atomic.                                *)
(* BatchSpec  batch() running one such session per identifier of args.id.  *)
(* ThreadSpec one session with on_dcc_disconnect taken statement by        *)
(*            statement by the event thread and by the grace Timer thread. *)
(***************************************************************************)
EXTENDS Integers, Sequences, FiniteSets, TLC

----------------------------------------------------------------------------
(* Bounds of the model *)

\* CTCP DCC offers delivered to the client in one session
MaxOffers == 2
\* total number of data bytes the peers deliver in one session
MaxBytes == 2
\* options.timeout, in seconds (one watchdog window is this many 1 s ticks)
TimeoutSecs == 1
\* full watchdog windows the model follows
MaxWindows == 1

----------------------------------------------------------------------------
(* Strings whose characters the code inspects are sequences of characters *)

StrServer == <<"s", "e", "r", "v", "e", "r">>
StrTarget == <<"t", "a", "r", "g", "e", "t">>
StrAll == <<"a", "l", "l">>
Comma == ","

\* nick of the bot the file is requested from (args.bot, self.target)
Bot == <<"b", "o", "t">>
\* another participant
Eve == <<"e", "v", "e">>
\* a participant whose nick contains the letters of "server"
Observer == <<"o", "b">> \o StrServer
\* the nick of this client (conn.get_nickname())
OwnNick == <<"m", "e">>
\* evt.source of a message that carries no prefix
NoSource == << >>
Sources == {NoSource, Bot, Eve}

\* channel names
Chan == <<"#", "c">>
OtherChan == <<"#", "d">>
NickServ == <<"n", "s">>
\* options.channel when no channel is configured
NoChannel == << >>

\* args.verb + " " + args.id_prefix
Verb == "XDCC SEND #"
\* self.cmd of a single download: args.verb + " " + args.id_prefix + id
Cmd == Verb \o "1"
DisconnectMessage == "Just downloading a file."

\* self.dcc is None
NoDcc == 0
\* self.size before any offer
NoSize == -1

\* the threads that enter on_dcc_disconnect: the event thread and the grace Timer
Threads == {"event", "timer"}
\* args of a run without --batch
NoBatch == [id |-> << >>, output_isdir |-> TRUE]

\* what the client sends to the IRC connection
JoinOut(c) == [op |-> "join", target |-> c, text |-> ""]
PrivmsgOut(t, x) == [op |-> "privmsg", target |-> t, text |-> x]
QuitOut == [op |-> "quit", target |-> << >>, text |-> DisconnectMessage]

\* Python: str(b) of a bool, as self.success holds it
PyBool(b) == IF b THEN "True" ELSE "False"

Max(a, b) == IF a >= b THEN a ELSE b

----------------------------------------------------------------------------
(* Pure functions *)

\* Python: p in s, for strings
IsSubstring(p, s) ==
    \E i \in 1..(Len(s) - Len(p) + 1) : SubSeq(s, i, i + Len(p) - 1) = p

RECURSIVE JoinStr(_)
\* Python: ",".join(list)
JoinStr(list) ==
    IF list = << >> THEN << >>
    ELSE IF Len(list) = 1 THEN list[1]
    ELSE list[1] \o <<Comma>> \o JoinStr(Tail(list))

RECURSIVE SplitStr(_)
\* Python: s.split(",")
SplitStr(s) ==
    IF \A i \in 1..Len(s) : s[i] # Comma THEN <<s>>
    ELSE LET i == CHOOSE j \in 1..Len(s) :
                      s[j] = Comma /\ \A h \in 1..(j - 1) : s[h] # Comma
         IN <<SubSeq(s, 1, i - 1)>> \o SplitStr(SubSeq(s, i + 1, Len(s)))

\* main: the --sender list becomes one comma separated string
main_sender(args) == JoinStr(IF args = << >> THEN <<StrTarget>> ELSE args)

\* irc.client.is_channel
is_channel(s) == s # << >> /\ s[1] \in {"#", "&", "+", "!"}

\* int(sz) for the size tokens the peers send
int(tok) == CASE tok = "0" -> 0 [] tok = "1" -> 1 [] tok = "2" -> 2 [] tok = "3" -> 3

\* the four bytes of n with the least significant first
pack_little_endian(n) ==
    <<n % 256, (n \div 256) % 256, (n \div 65536) % 256, (n \div 16777216) % 256>>

\* struct.pack("!I", n): four bytes, most significant first (n stays far below
\* 2^32 in this model, where struct.pack would raise)
pack(n) == <<(n \div 16777216) % 256, (n \div 65536) % 256, (n \div 256) % 256, n % 256>>

\* struct.unpack("!I", b)
unpack(b) == ((b[1] * 256 + b[2]) * 256 + b[3]) * 256 + b[4]

----------------------------------------------------------------------------
(* Inputs *)

\* values of args.sender (the repeated --sender option)
SenderArgs == {<< >>, <<StrAll>>, <<StrTarget, StrServer>>, <<Observer>>}

\* values of options.message
MessageArgs == {<< >>, <<[target |-> NickServ, text |-> "identify"]>>,
                <<[target |-> Chan, text |-> "hello"]>>}

ChannelArgs == {NoChannel, Chan}

\* the option sets of the sessions that are followed: every sender policy with
\* force-response off and on for the plain handshake, and every handshake (the
\* pre-messages and the required channel) under the default sender policy
OptionSets ==
    [sender : {main_sender(a) : a \in SenderArgs},
     force_response : BOOLEAN,
     message : {<< >>},
     channel : {NoChannel},
     timeout : {TimeoutSecs}]
    \cup
    [sender : {main_sender(<< >>)},
     force_response : {FALSE},
     message : MessageArgs,
     channel : ChannelArgs,
     timeout : {TimeoutSecs}]

\* the sizes the peers declare
SizeTokens == {"0", "2"}

\* the offers: the payload of a CTCP DCC message as shlex.split tokenizes it
SendPayload(sz) == <<"SEND", "f.bin", "3232235521", "5000", sz>>
Payloads == {SendPayload(sz) : sz \in SizeTokens}
            \cup {<<"GET", "f.bin", "3232235521", "5000", "1">>,
                  <<"SEND", "f.bin", "3232235521", "5000">>,
                  <<"SEND", "f.bin", "3232235521", "5000", "1", "x">>}

----------------------------------------------------------------------------
VARIABLES
    options,                \* self.options (sender, force_response, message, channel, timeout)
    dcc,                    \* self.dcc: NoDcc or the id of a data connection
    stream,                 \* self.stream: "unset", "open" or "closed"
    exited,                 \* self._exited
    received_bytes,         \* self.received_bytes
    size,                   \* self.size
    timeout_received_bytes, \* self._timeout_received_bytes
    original_filename,      \* self.original_filename
    warning,                \* self.warning
    short_warning,          \* self._short_warning
    refresh_timeout,        \* self._refresh_timeout
    success,                \* self.success: "None", "True" or "False"
    client_state,           \* self._client_state: where the run generator is suspended
    channels,               \* the local set channels of run
    last_str,               \* self._last_str: the status line
    reactor,                \* the event thread: "running", "stopped" (stop()) or "crashed"
    conns,                  \* the data connections that are open
    nconn,                  \* number of dcc_connect calls
    nstream,                \* number of sinks opened by _get_stream_of_file
    reporters,              \* number of _dlnotice threads started
    watchdog,               \* the _await_timeout thread: "none", "armed", "polling", "returned", "aborted"
    wd_i,                   \* the loop variable i of _await_timeout
    win_start,              \* received_bytes when the current watchdog window began
    nwin,                   \* full watchdog windows that have elapsed
    timers,                 \* grace Timers started and not yet fired
    sent,                   \* what was sent to the IRC connection, in order
    acks,                   \* what was sent with dcc.send_bytes, in order
    report,                 \* the final status line written by on_dcc_disconnect
    blocks,                 \* the local blocks of the last on_dccmsg
    noffers,                \* CTCP DCC events delivered
    self_cmd,               \* self.cmd: the request sent to the bot
    batch_args,             \* args.id and whether args.output is a directory
    batch_pc,               \* where batch is: "off", "start", "loop", "session", "returned"
    id_iterator_list,       \* the local id_iterator_list of batch
    iter_i,                 \* the position of the outer loop of batch in id_iterator_list
    id_j,                   \* the position of the inner loop of batch in the range
    batch_result,           \* what batch returned: "None", "True", "False", or "raised"
    created,                \* the ids download was called with, in order
    outcomes,               \* how each call of download ended, in order
    teardown_pc,            \* where each thread is inside on_dcc_disconnect
    ev_handler              \* the handler the event thread entered on_dcc_disconnect from

session == <<dcc, stream, exited, received_bytes, size, timeout_received_bytes,
             original_filename, warning, short_warning, refresh_timeout, success,
             last_str, report>>
handshake == <<client_state, channels>>
threads == <<watchdog, wd_i, win_start, nwin, timers, reporters>>
wires == <<conns, nconn, nstream, sent, acks, blocks>>
inputs == <<noffers>>
orchestration == <<self_cmd, batch_args, batch_pc, id_iterator_list, iter_i, id_j,
                   batch_result, created, outcomes>>
teardown == <<teardown_pc, ev_handler>>
vars == <<options, session, handshake, threads, wires, inputs, reactor, orchestration,
          teardown>>

Init ==
    /\ options \in OptionSets
    /\ dcc = NoDcc
    /\ stream = "unset"
    /\ exited = FALSE
    /\ received_bytes = 0
    /\ size = NoSize
    /\ timeout_received_bytes = 0
    /\ original_filename = ""
    /\ warning = ""
    /\ short_warning = TRUE
    /\ refresh_timeout = FALSE
    /\ success = "None"
    /\ client_state = [pc |-> "none", k |-> 0]
    /\ channels = {}
    /\ last_str = ""
    /\ reactor = "running"
    /\ conns = {}
    /\ nconn = 0
    /\ nstream = 0
    /\ reporters = 0
    /\ watchdog = "none"
    /\ wd_i = 0
    /\ win_start = 0
    /\ nwin = 0
    /\ timers = 0
    /\ sent = << >>
    /\ acks = << >>
    /\ report = ""
    /\ blocks = FALSE
    /\ noffers = 0
    /\ self_cmd = Cmd
    /\ batch_args = NoBatch
    /\ batch_pc = "off"
    /\ id_iterator_list = << >>
    /\ iter_i = 0
    /\ id_j = 0
    /\ batch_result = "None"
    /\ created = << >>
    /\ outcomes = << >>
    /\ teardown_pc = [t \in Threads |-> "idle"]
    /\ ev_handler = "none"

----------------------------------------------------------------------------
(* Sender authorization *)

\* check_source with the entry "target" letting every nick pass
check_source_any_nick(source, tgt) ==
    IF source = NoSource THEN IsSubstring(StrServer, options.sender)
    ELSE IF tgt /\ source = Bot THEN TRUE
    ELSE IF options.sender # StrAll
         THEN LET names == SplitStr(options.sender)
              IN \E k \in 1..Len(names) :
                     IF names[k] = StrTarget THEN TRUE
                     ELSE names[k] = source
         ELSE TRUE

\* check_source(source, target): source is evt.source (its nick), NoSource when
\* the message carries none
check_source(source, tgt) ==
    IF source = NoSource THEN IsSubstring(StrServer, options.sender)
    ELSE IF tgt /\ source = Bot THEN TRUE
    ELSE IF options.sender # StrAll
         THEN LET names == SplitStr(options.sender)
              IN \E k \in 1..Len(names) :
                     IF names[k] = StrTarget THEN source = Bot
                     ELSE names[k] = source
         ELSE TRUE

\* _disconnect: the quit is sent unless the final status was already reported
disconnect(out) == IF exited THEN out ELSE Append(out, QuitOut)

\* _privmsg(target, txt): the message goes out with self.target and self.cmd
privmsg(target, txt) == PrivmsgOut(Bot, self_cmd)

----------------------------------------------------------------------------
(* The handshake generator run() *)

RECURSIVE run_messages(_, _)
\* the for loop of run from message k on, out being what was sent so far: it
\* ends suspended at the yield after a join, or after the last message
run_messages(k, out) ==
    IF k > Len(options.message) THEN [pc |-> "after", k |-> k, out |-> out]
    ELSE LET m == options.message[k]
         IN IF is_channel(m.target) /\ m.target \notin channels
            THEN [pc |-> "y108", k |-> k, out |-> Append(out, JoinOut(m.target))]
            ELSE run_messages(k + 1, Append(out, privmsg(m.target, m.text)))

\* the last two statements of run: the status, then _initiate
run_final(out, chs) ==
    [pc |-> "end", k |-> 0, out |-> out, channels |-> chs,
     status |-> "Waiting for connection.", initiate |-> TRUE, raised |-> FALSE]

\* run after the loop: join the required channel and suspend, or finish
run_tail(out, chs, status) ==
    IF options.channel # NoChannel /\ options.channel \notin chs
    THEN [pc |-> "y117", k |-> 0, out |-> Append(out, JoinOut(options.channel)),
          channels |-> chs, status |-> status, initiate |-> FALSE, raised |-> FALSE]
    ELSE run_final(out, chs)

\* next(self._client_state, None) with the generator at pc: what one
\* resumption of run does
run(pc) ==
    CASE pc = "none" ->
            LET status == IF options.message # << >> THEN "Sending out messages"
                          ELSE last_str
                r == run_messages(1, sent)
            IN IF r.pc = "y108"
               THEN [pc |-> "y108", k |-> r.k, out |-> r.out, channels |-> channels,
                     status |-> status, initiate |-> FALSE, raised |-> FALSE]
               ELSE run_tail(r.out, channels, status)
      [] pc = "y108" ->
            \* channels.channel(target): a set has no such attribute
            [pc |-> "end", k |-> 0, out |-> sent, channels |-> channels,
             status |-> last_str, initiate |-> FALSE, raised |-> TRUE]
      [] pc = "y117" -> run_final(sent, channels \cup {options.channel})
      [] OTHER ->
            [pc |-> "end", k |-> 0, out |-> sent, channels |-> channels,
             status |-> last_str, initiate |-> FALSE, raised |-> FALSE]

\* advance_client_state, with _initiate when run reaches its end
advance_client_state ==
    LET r == run(client_state.pc)
    IN /\ client_state' = [pc |-> r.pc, k |-> r.k]
       /\ channels' = r.channels
       /\ last_str' = r.status
       /\ reactor' = IF r.raised THEN "crashed" ELSE reactor
       /\ IF r.initiate /\ dcc = NoDcc
          THEN /\ sent' = Append(r.out, privmsg(Bot, self_cmd))
               /\ watchdog' = "armed"
          ELSE /\ sent' = r.out
               /\ UNCHANGED watchdog

on_welcome ==
    /\ reactor = "running"
    /\ client_state.pc = "none"
    /\ advance_client_state
    /\ UNCHANGED <<orchestration, teardown, options, dcc, stream, exited, received_bytes, size,
                   timeout_received_bytes, original_filename, warning, short_warning,
                   refresh_timeout, success, report, wd_i, win_start, nwin, timers,
                   reporters, conns, nconn, nstream, acks, blocks, inputs>>

on_join(nick, chan) ==
    /\ reactor = "running"
    /\ client_state.pc # "none"
    /\ IF nick # OwnNick
       THEN UNCHANGED <<handshake, last_str, reactor, sent, watchdog>>
       ELSE advance_client_state
    /\ UNCHANGED <<orchestration, teardown, options, dcc, stream, exited, received_bytes, size,
                   timeout_received_bytes, original_filename, warning, short_warning,
                   refresh_timeout, success, report, wd_i, win_start, nwin, timers,
                   reporters, conns, nconn, nstream, acks, blocks, noffers>>

----------------------------------------------------------------------------
(* DCC offers *)

\* a do_dcc that takes every subcommand for SEND
is_send_any(cmd) == TRUE

\* the comparison cmd != "SEND" of do_dcc
is_send(cmd) == cmd = "SEND"

\* on_ctcp with the command DCC, that is do_dcc: an offer from src whose
\* payload tokenizes into the tokens p
do_dcc(src, p) ==
    /\ reactor = "running"
    /\ client_state.pc # "none"
    /\ noffers < MaxOffers
    /\ noffers' = noffers + 1
    /\ IF ~check_source(src, FALSE)
       THEN \* "Unknown DCC Source" is printed, the status line is restored
            UNCHANGED <<dcc, stream, size, original_filename, conns, nconn, nstream,
                        reporters, sent, reactor>>
       ELSE IF Len(p) # 5
       THEN \* cmd, fn, addr, port, sz = split(payload) raises ValueError
            /\ reactor' = "crashed"
            /\ UNCHANGED <<dcc, stream, size, original_filename, conns, nconn, nstream,
                           reporters, sent>>
       ELSE IF ~is_send(p[1])
       THEN /\ sent' = disconnect(sent)
            /\ UNCHANGED <<dcc, stream, size, original_filename, conns, nconn, nstream,
                           reporters, reactor>>
       ELSE /\ original_filename' = p[2]
            /\ stream' = "open"
            /\ nstream' = nstream + 1
            /\ nconn' = nconn + 1
            /\ dcc' = nconn + 1
            /\ conns' = conns \cup {nconn + 1}
            /\ size' = int(p[5])
            /\ reporters' = reporters + 1
            /\ UNCHANGED <<sent, reactor>>
    /\ UNCHANGED <<orchestration, teardown, options, exited, received_bytes, timeout_received_bytes, warning,
                   short_warning, refresh_timeout, success, last_str, report, handshake,
                   watchdog, wd_i, win_start, nwin, timers, acks, blocks>>

\* on_privmsg / on_privnotice: the message is printed when its source is allowed
on_privmsg(src) ==
    /\ reactor = "running"
    \* evt.source.nick of a message without source raises AttributeError
    /\ reactor' = IF check_source(src, TRUE) /\ src = NoSource THEN "crashed" ELSE reactor
    /\ UNCHANGED <<orchestration, teardown, options, session, handshake, threads, wires, noffers>>

----------------------------------------------------------------------------
(* The data connection *)

StuckWarning == "Download my be stuck."

\* an on_dccmsg that raises the warning without the early reset of the watchdog
expect_timeout_never(blk, flag) == flag

\* on_dccmsg before the send: the early-reset flag is raised when the probe
\* found the socket not writable
expect_timeout(blk, flag) == blk \/ flag

\* on_dccmsg before the send: the warning is raised when the probe found the
\* socket not writable
raise_warning(blk, w) == IF blk THEN StuckWarning ELSE w

\* on_dccmsg after the send: the warning is cleared when it was raised
clear_warning(blk, w) == IF blk THEN "" ELSE w

\* an on_dccmsg that forgets force_response
should_respond_if_writable(force, blk) == ~blk

\* the condition under which on_dccmsg sends the acknowledgement
should_respond(force, blk) == force \/ ~blk

\* on_dccmsg: n bytes arrive on the open connection c; blk is the outcome of the
\* select probe (TRUE: the socket of self.dcc is not writable)
on_dccmsg(c, n, blk) ==
    /\ reactor = "running"
    /\ c \in conns
    /\ received_bytes + n <= MaxBytes
    /\ IF stream # "open"
       THEN \* self.stream.write on a closed file raises ValueError
            /\ reactor' = "crashed"
            /\ UNCHANGED <<received_bytes, blocks, acks, refresh_timeout, warning,
                           short_warning, timers>>
       ELSE /\ received_bytes' = received_bytes + n
            /\ blocks' = blk
            /\ IF should_respond(options.force_response, blk)
               THEN \* the acknowledgement is recorded with the declared size, the
                    \* warning and the early-reset flag as they are when it is sent
                    /\ acks' = Append(acks, [pkt |-> pack(received_bytes'),
                                             declared |-> size,
                                             warning |-> raise_warning(blk, warning),
                                             refresh |-> expect_timeout(blk, refresh_timeout)])
                    /\ refresh_timeout' = expect_timeout(blk, refresh_timeout)
                    /\ warning' = clear_warning(blk, raise_warning(blk, warning))
                    /\ short_warning' = IF blk THEN TRUE ELSE short_warning
               ELSE UNCHANGED <<acks, refresh_timeout, warning, short_warning>>
            /\ timers' = IF received_bytes' = size THEN timers + 1 ELSE timers
            /\ UNCHANGED reactor
    /\ UNCHANGED <<orchestration, teardown, options, dcc, stream, exited, size, timeout_received_bytes,
                   original_filename, success, last_str, report, handshake, watchdog,
                   wd_i, win_start, nwin, reporters, conns, nconn, nstream, sent, inputs>>

\* the final status line of on_dcc_disconnect
final_status ==
    IF received_bytes = size THEN "Download complete"
    ELSE IF original_filename # "" THEN "Failed to download: " \o original_filename
    ELSE "Failed to establish DCC connection."

\* the body of on_dcc_disconnect, cs being the connections open when it runs
on_dcc_disconnect(cs) ==
    /\ IF dcc # NoDcc
       THEN /\ stream' = "closed"
            /\ sent' = disconnect(sent)
            /\ conns' = cs \ {dcc}
            /\ dcc' = NoDcc
       ELSE /\ conns' = cs
            /\ UNCHANGED <<stream, sent, dcc>>
    /\ IF ~exited
       THEN /\ last_str' = final_status
            /\ report' = final_status
            /\ exited' = TRUE
       ELSE UNCHANGED <<last_str, report, exited>>

\* the peer closes the data connection c: the dcc_disconnect event
dcc_disconnect_event(c) ==
    /\ reactor = "running"
    /\ c \in conns
    /\ on_dcc_disconnect(conns \ {c})
    /\ UNCHANGED <<orchestration, teardown, options, received_bytes, size, timeout_received_bytes,
                   original_filename, warning, short_warning, refresh_timeout, success,
                   handshake, threads, nconn, nstream, acks, blocks, inputs, reactor>>

\* the grace Timer started by on_dccmsg fires: _drop_connection
drop_connection ==
    /\ timers > 0
    /\ timers' = timers - 1
    /\ on_dcc_disconnect(conns)
    /\ UNCHANGED <<orchestration, teardown, options, received_bytes, size, timeout_received_bytes,
                   original_filename, warning, short_warning, refresh_timeout, success,
                   handshake, watchdog, wd_i, win_start, nwin, reporters, nconn, nstream,
                   acks, blocks, inputs, reactor>>

\* the IRC connection is closed: on_disconnect, then stop()
on_disconnect ==
    /\ reactor = "running"
    /\ on_dcc_disconnect(conns)
    /\ success' = PyBool(received_bytes = size)
    /\ reactor' = "stopped"
    /\ UNCHANGED <<orchestration, teardown, options, received_bytes, size, timeout_received_bytes,
                   original_filename, warning, short_warning, refresh_timeout,
                   handshake, threads, nconn, nstream, acks, blocks, inputs>>

----------------------------------------------------------------------------
(* The watchdog thread _await_timeout *)

\* range(max(int(self.options.timeout), 1))
Ticks == Max(options.timeout, 1)

\* the first sleep is over: without a data connection the session is quit
await_timeout_armed ==
    /\ watchdog = "armed"
    /\ IF dcc = NoDcc
       THEN /\ sent' = disconnect(sent)
            /\ watchdog' = IF exited THEN "returned" ELSE "aborted"
            /\ UNCHANGED <<wd_i, win_start>>
       ELSE /\ watchdog' = "polling"
            /\ wd_i' = 0
            /\ win_start' = received_bytes
            /\ UNCHANGED sent
    /\ UNCHANGED <<orchestration, teardown, options, dcc, stream, exited, received_bytes, size,
                   timeout_received_bytes, original_filename, warning, short_warning,
                   refresh_timeout, success, last_str, report, handshake, nwin, timers,
                   reporters, conns, nconn, nstream, acks, blocks, inputs, reactor>>

\* the comparison after the for loop, and the next test of the while loop
await_timeout_check ==
    IF received_bytes = timeout_received_bytes
    THEN /\ sent' = disconnect(sent)
         /\ last_str' = "Download timed out."
         /\ watchdog' = "aborted"
         /\ UNCHANGED <<wd_i, win_start>>
    ELSE /\ watchdog' = IF dcc # NoDcc THEN "polling" ELSE "returned"
         /\ wd_i' = 0
         /\ win_start' = received_bytes
         /\ UNCHANGED <<sent, last_str>>

\* one time.sleep(1) of the polling loop and what follows it
await_timeout_tick ==
    /\ watchdog = "polling"
    /\ nwin < MaxWindows
    /\ IF refresh_timeout
       THEN /\ refresh_timeout' = FALSE
            /\ UNCHANGED nwin
            /\ await_timeout_check
       ELSE /\ UNCHANGED refresh_timeout
            /\ IF dcc = NoDcc
               THEN /\ watchdog' = "returned"
                    /\ UNCHANGED <<wd_i, win_start, nwin, sent, last_str>>
               ELSE IF wd_i + 1 < Ticks
               THEN /\ wd_i' = wd_i + 1
                    /\ UNCHANGED <<watchdog, win_start, nwin, sent, last_str>>
               ELSE /\ nwin' = nwin + 1
                    /\ await_timeout_check
    /\ UNCHANGED <<orchestration, teardown, options, dcc, stream, exited, received_bytes, size,
                   timeout_received_bytes, original_filename, warning, short_warning,
                   success, report, handshake, timers, reporters, conns, nconn, nstream,
                   acks, blocks, inputs, reactor>>

----------------------------------------------------------------------------
Next ==
    \/ on_welcome
    \/ \E nick \in {OwnNick, Eve}, chan \in {Chan, OtherChan} : on_join(nick, chan)
    \/ \E src \in Sources, p \in Payloads : do_dcc(src, p)
    \/ \E src \in Sources : on_privmsg(src)
    \/ \E c \in conns, n \in 1..MaxBytes, blk \in BOOLEAN : on_dccmsg(c, n, blk)
    \/ \E c \in conns : dcc_disconnect_event(c)
    \/ drop_connection
    \/ on_disconnect
    \/ await_timeout_armed
    \/ await_timeout_tick

Spec == Init /\ [][Next]_vars

----------------------------------------------------------------------------
(* The batch orchestrator: batch() driving one download() per identifier *)

\* Python: str(id) for the identifiers of the model
str(n) == CASE n = 0 -> "0" [] n = 1 -> "1" [] n = 2 -> "2" [] n = 3 -> "3"
            [] n = 4 -> "4"

RECURSIVE int_digits(_)
\* int(r) for a token r of decimal digits
int_digits(r) ==
    IF Len(r) = 1 THEN int(r[1])
    ELSE int_digits(SubSeq(r, 1, Len(r) - 1)) * 10 + int(r[Len(r)])

RECURSIVE split_on(_, _)
\* Python: s.split(sep)
split_on(s, sep) ==
    IF \A i \in 1..Len(s) : s[i] # sep THEN <<s>>
    ELSE LET i == CHOOSE j \in 1..Len(s) :
                      s[j] = sep /\ \A h \in 1..(j - 1) : s[h] # sep
         IN <<SubSeq(s, 1, i - 1)>> \o split_on(SubSeq(s, i + 1, Len(s)), sep)

\* Python: range(a, b) as the sequence of its values
range(a, b) == IF b <= a THEN << >> ELSE [i \in 1..(b - a) |-> a + i - 1]

RECURSIVE id_ranges(_)
\* the loop of batch that fills id_iterator_list from the tokens of args.id
id_ranges(tokens) ==
    IF tokens = << >> THEN << >>
    ELSE LET r == Head(tokens)
             one == IF \E i \in 1..Len(r) : r[i] = "-"
                    THEN LET se == split_on(r, "-")
                         IN range(int_digits(se[1]), int_digits(se[2]) + 1)
                    ELSE <<int_digits(r)>>
         IN <<one>> \o id_ranges(Tail(tokens))

\* values of args.id in batch mode
IdArgs == {<<"1">>, <<"1", "-", "2">>, <<"2", ",", "1">>,
           <<"1", ",", "2", "-", "3">>, <<"2", "-", "1">>}

\* the options of a run with the default sender policy, no pre-message, no
\* required channel and force-response off
DefaultOptionSets ==
    [sender : {main_sender(<< >>)},
     force_response : {FALSE},
     message : {<< >>},
     channel : {NoChannel},
     timeout : {TimeoutSecs}]

\* XDCCDownloadClient(args.bot, args.verb + " " + args.id_prefix + id, ...): the
\* fields of a new client
new_client(id) ==
    /\ self_cmd' = Verb \o id
    /\ dcc' = NoDcc
    /\ stream' = "unset"
    /\ exited' = FALSE
    /\ received_bytes' = 0
    /\ size' = NoSize
    /\ timeout_received_bytes' = 0
    /\ original_filename' = ""
    /\ warning' = ""
    /\ short_warning' = TRUE
    /\ refresh_timeout' = FALSE
    /\ success' = "None"
    /\ client_state' = [pc |-> "none", k |-> 0]
    /\ channels' = {}
    /\ last_str' = ""
    /\ reactor' = "running"
    /\ conns' = {}
    /\ nconn' = 0
    /\ nstream' = 0
    /\ reporters' = 0
    /\ watchdog' = "none"
    /\ wd_i' = 0
    /\ win_start' = 0
    /\ nwin' = 0
    /\ timers' = 0
    /\ sent' = << >>
    /\ acks' = << >>
    /\ report' = ""
    /\ blocks' = FALSE
    /\ noffers' = 0
    /\ teardown_pc' = [t \in Threads |-> "idle"]
    /\ ev_handler' = "none"

BatchInit ==
    /\ options \in DefaultOptionSets
    /\ batch_args \in [id : IdArgs, output_isdir : BOOLEAN]
    /\ batch_pc = "start"
    /\ id_iterator_list = << >>
    /\ iter_i = 0
    /\ id_j = 0
    /\ batch_result = "None"
    /\ created = << >>
    /\ outcomes = << >>
    /\ self_cmd = ""
    /\ dcc = NoDcc
    /\ stream = "unset"
    /\ exited = FALSE
    /\ received_bytes = 0
    /\ size = NoSize
    /\ timeout_received_bytes = 0
    /\ original_filename = ""
    /\ warning = ""
    /\ short_warning = TRUE
    /\ refresh_timeout = FALSE
    /\ success = "None"
    /\ client_state = [pc |-> "none", k |-> 0]
    /\ channels = {}
    /\ last_str = ""
    /\ reactor = "running"
    /\ conns = {}
    /\ nconn = 0
    /\ nstream = 0
    /\ reporters = 0
    /\ watchdog = "none"
    /\ wd_i = 0
    /\ win_start = 0
    /\ nwin = 0
    /\ timers = 0
    /\ sent = << >>
    /\ acks = << >>
    /\ report = ""
    /\ blocks = FALSE
    /\ noffers = 0
    /\ teardown_pc = [t \in Threads |-> "idle"]
    /\ ev_handler = "none"

\* batch up to its loops: the directory test and the expansion of args.id
batch_start ==
    /\ batch_pc = "start"
    /\ IF ~batch_args.output_isdir
       THEN /\ batch_result' = "False"
            /\ batch_pc' = "returned"
            /\ UNCHANGED <<id_iterator_list, iter_i, id_j>>
       ELSE /\ id_iterator_list' = id_ranges(split_on(batch_args.id, Comma))
            /\ iter_i' = 1
            /\ id_j' = 0
            /\ batch_pc' = "loop"
            /\ UNCHANGED batch_result
    /\ UNCHANGED <<self_cmd, batch_args, created, outcomes, teardown, options, session,
                   handshake, threads, wires, inputs, reactor>>

RECURSIVE next_id(_, _)
\* the two loops of batch: the position of the identifier after position j of
\* range i, or <<0, 0>> when the loops are over
next_id(i, j) ==
    IF i > Len(id_iterator_list) THEN <<0, 0>>
    ELSE IF j < Len(id_iterator_list[i]) THEN <<i, j + 1>>
    ELSE next_id(i + 1, 0)

\* an always continuing batch
not_success_never(result) == FALSE

\* the test "not download(...)" of batch on what download returned
not_success(result) == result # "True"

\* the loops of batch reach the next identifier and call download, which
\* creates the client; or they are over and batch returns True
batch_download ==
    /\ batch_pc = "loop"
    /\ LET pos == next_id(iter_i, id_j)
       IN IF pos = <<0, 0>>
          THEN /\ batch_result' = "True"
               /\ batch_pc' = "returned"
               /\ UNCHANGED <<self_cmd, iter_i, id_j, created, teardown, session,
                              handshake, threads, wires, inputs, reactor>>
          ELSE LET id == id_iterator_list[pos[1]][pos[2]]
               IN /\ iter_i' = pos[1]
                  /\ id_j' = pos[2]
                  /\ created' = Append(created, id)
                  /\ batch_pc' = "session"
                  /\ new_client(str(id))
                  /\ UNCHANGED batch_result
    /\ UNCHANGED <<options, batch_args, id_iterator_list, outcomes>>

\* cl.start() is over: download returns cl.success, or the error of a handler
\* leaves download and batch
download_return ==
    /\ batch_pc = "session"
    /\ reactor # "running"
    /\ IF reactor = "crashed"
       THEN /\ outcomes' = Append(outcomes, "raised")
            /\ batch_result' = "raised"
            /\ batch_pc' = "returned"
       ELSE /\ outcomes' = Append(outcomes, success)
            /\ IF not_success(success)
               THEN /\ batch_result' = "False"
                    /\ batch_pc' = "returned"
               ELSE /\ batch_pc' = "loop"
                    /\ UNCHANGED batch_result
    /\ UNCHANGED <<self_cmd, batch_args, id_iterator_list, iter_i, id_j, created,
                   teardown, options, session, handshake, threads, wires, inputs,
                   reactor>>

\* the session download is running
in_session == batch_pc = "session"

BatchNext ==
    \/ batch_start
    \/ batch_download
    \/ download_return
    \/ in_session /\ on_welcome
    \/ in_session /\ \E nick \in {OwnNick, Eve}, chan \in {Chan, OtherChan} : on_join(nick, chan)
    \/ in_session /\ \E src \in Sources, p \in Payloads : do_dcc(src, p)
    \/ in_session /\ \E src \in Sources : on_privmsg(src)
    \/ in_session /\ \E c \in conns, n \in 1..MaxBytes, blk \in BOOLEAN : on_dccmsg(c, n, blk)
    \/ in_session /\ \E c \in conns : dcc_disconnect_event(c)
    \/ in_session /\ drop_connection
    \/ in_session /\ on_disconnect
    \/ in_session /\ await_timeout_armed
    \/ in_session /\ await_timeout_tick

BatchSpec == BatchInit /\ [][BatchNext]_vars

----------------------------------------------------------------------------
(* on_dcc_disconnect statement by statement, entered by the event thread and *)
(* by the grace Timer thread                                                  *)

ThreadInit == Init /\ options \in DefaultOptionSets

\* the event thread is between two handlers
ev_idle == teardown_pc["event"] = "idle"

\* thread t evaluates "if self.dcc is not None" of on_dcc_disconnect
enter_test(t) ==
    teardown_pc' = [teardown_pc EXCEPT ![t] = IF dcc # NoDcc THEN "body" ELSE "status"]

\* the peer closed the data connection c: the event thread enters
\* on_dcc_disconnect
dcc_disconnect_enters(c) ==
    /\ reactor = "running"
    /\ ev_idle
    /\ c \in conns
    /\ conns' = conns \ {c}
    /\ ev_handler' = "on_dcc_disconnect"
    /\ enter_test("event")
    /\ UNCHANGED <<orchestration, options, session, handshake, threads, nconn, nstream,
                   sent, acks, blocks, inputs, reactor>>

\* the IRC connection is closed: the event thread enters on_disconnect and with
\* it on_dcc_disconnect
on_disconnect_enters ==
    /\ reactor = "running"
    /\ ev_idle
    /\ ev_handler' = "on_disconnect"
    /\ enter_test("event")
    /\ UNCHANGED <<orchestration, options, session, handshake, threads, wires, inputs,
                   reactor>>

\* the grace Timer fires: its thread enters _drop_connection and with it
\* on_dcc_disconnect
drop_connection_enters ==
    /\ timers > 0
    /\ teardown_pc["timer"] = "idle"
    /\ timers' = timers - 1
    /\ enter_test("timer")
    /\ UNCHANGED <<orchestration, ev_handler, options, session, handshake, watchdog,
                   wd_i, win_start, nwin, reporters, wires, inputs, reactor>>

\* thread t runs self.stream.close(), self._disconnect() and
\* self.dcc.disconnect(); with dcc None the last one raises AttributeError,
\* which ends the Timer thread or leaves the handler of the event thread
teardown_body(t) ==
    /\ teardown_pc[t] = "body"
    /\ stream' = "closed"
    /\ sent' = disconnect(sent)
    /\ IF dcc # NoDcc
       THEN /\ conns' = conns \ {dcc}
            /\ teardown_pc' = [teardown_pc EXCEPT ![t] = "clear"]
            /\ UNCHANGED reactor
       ELSE /\ teardown_pc' = [teardown_pc EXCEPT ![t] = IF t = "timer" THEN "raised"
                                                        ELSE "idle"]
            /\ reactor' = IF t = "event" THEN "crashed" ELSE reactor
            /\ UNCHANGED conns
    /\ UNCHANGED <<orchestration, ev_handler, options, dcc, exited, received_bytes, size,
                   timeout_received_bytes, original_filename, warning, short_warning,
                   refresh_timeout, success, last_str, report, handshake, threads,
                   nconn, nstream, acks, blocks, inputs>>

\* thread t runs self.dcc = None
teardown_clear(t) ==
    /\ teardown_pc[t] = "clear"
    /\ dcc' = NoDcc
    /\ teardown_pc' = [teardown_pc EXCEPT ![t] = "status"]
    /\ UNCHANGED <<orchestration, ev_handler, options, stream, exited, received_bytes,
                   size, timeout_received_bytes, original_filename, warning,
                   short_warning, refresh_timeout, success, last_str, report, handshake,
                   threads, wires, inputs, reactor>>

\* thread t runs the block "if not self._exited" and leaves on_dcc_disconnect;
\* the event thread that came from on_disconnect goes on to set success and stop
teardown_status(t) ==
    /\ teardown_pc[t] = "status"
    /\ teardown_pc' = [teardown_pc EXCEPT ![t] = "idle"]
    /\ IF ~exited
       THEN /\ last_str' = final_status
            /\ report' = final_status
            /\ exited' = TRUE
       ELSE UNCHANGED <<last_str, report, exited>>
    /\ IF t = "event" /\ ev_handler = "on_disconnect"
       THEN /\ success' = PyBool(received_bytes = size)
            /\ reactor' = "stopped"
       ELSE UNCHANGED <<success, reactor>>
    /\ ev_handler' = IF t = "event" THEN "none" ELSE ev_handler
    /\ UNCHANGED <<orchestration, options, dcc, stream, received_bytes, size,
                   timeout_received_bytes, original_filename, warning, short_warning,
                   refresh_timeout, handshake, threads, wires, inputs>>

ThreadNext ==
    \/ ev_idle /\ on_welcome
    \/ ev_idle /\ \E nick \in {OwnNick, Eve}, chan \in {Chan, OtherChan} : on_join(nick, chan)
    \/ ev_idle /\ \E src \in Sources, p \in Payloads : do_dcc(src, p)
    \/ ev_idle /\ \E src \in Sources : on_privmsg(src)
    \/ ev_idle /\ \E c \in conns, n \in 1..MaxBytes, blk \in BOOLEAN : on_dccmsg(c, n, blk)
    \/ \E c \in conns : dcc_disconnect_enters(c)
    \/ on_disconnect_enters
    \/ drop_connection_enters
    \/ \E t \in Threads : teardown_body(t)
    \/ \E t \in Threads : teardown_clear(t)
    \/ \E t \in Threads : teardown_status(t)
    \/ await_timeout_armed
    \/ await_timeout_tick

ThreadSpec == ThreadInit /\ [][ThreadNext]_vars

----------------------------------------------------------------------------
(* Properties *)

\* number of quits sent to the IRC connection
Quits(out) == Cardinality({i \in DOMAIN out : out[i].op = "quit"})

\* the entries of the sender policy
SenderEntries == {SplitStr(options.sender)[k] : k \in DOMAIN SplitStr(options.sender)}

\* the value an acknowledgement carries
AckValue(i) == unpack(acks[i].pkt)

\* C1: in every session, however it ends, the quit is sent to the IRC
\* connection exactly once: never twice, and once the session has ended not
\* zero times.
C1_QuitExactlyOnce ==
    /\ Quits(sent) <= 1
    /\ (reactor = "stopped" => Quits(sent) = 1)

\* C2: whenever a full watchdog window elapses with a data connection open,
\* without early reset and with received_bytes equal to its value at the start
\* of the window, the watchdog aborts the session as timed out.
C2_StallAborts ==
    [][(nwin' = nwin + 1 /\ received_bytes = win_start) => watchdog' = "aborted"]_vars

\* C3: when the session has ended, success is true iff received_bytes equals
\* the declared size, never with size still -1, and the final status line is
\* "Download complete" exactly when success is true, "Failed to download:
\* <name>" when a filename was offered and the download is incomplete, and
\* "Failed to establish DCC connection." when no filename was offered.
C3_SuccessIffComplete ==
    reactor = "stopped" =>
        /\ success = PyBool(received_bytes = size)
        /\ (size = NoSize => success = "False")
        /\ (report = "Download complete") <=> (success = "True")
        /\ (success = "False" /\ original_filename # ""
               => report = "Failed to download: " \o original_filename)
        /\ (original_filename = "" => report = "Failed to establish DCC connection.")

\* C4: a session the watchdog aborted ends as failed: success is False and
\* the final status line is not "Download complete", whatever size was declared.
C4_AbortedIsFailed ==
    (reactor = "stopped" /\ watchdog = "aborted")
        => (success = "False" /\ report # "Download complete")

\* an acknowledgement packet is four bytes
IsPacket(b) == Len(b) = 4 /\ \A h \in 1..4 : b[h] \in 0..255

\* C5 as claimed: every acknowledgement is a 4-byte big-endian unsigned integer
\* whose value is at most the size declared when it was sent and at least every
\* value sent before it.
C5_AckWithinSize ==
    \A i \in DOMAIN acks :
        /\ IsPacket(acks[i].pkt)
        /\ AckValue(i) <= acks[i].declared
        /\ \A j \in 1..(i - 1) : AckValue(j) <= AckValue(i)

\* C5 as amended: every acknowledgement is a 4-byte big-endian unsigned integer
\* whose value is at most the number of bytes received so far and at least
\* every value sent before it; it stays within the declared size as long as the
\* peer has delivered no more than the declared size.
C5_AckWithinReceived ==
    \A i \in DOMAIN acks :
        /\ IsPacket(acks[i].pkt)
        /\ AckValue(i) <= received_bytes
        /\ (received_bytes <= acks[i].declared => AckValue(i) <= acks[i].declared)
        /\ \A j \in 1..(i - 1) : AckValue(j) <= AckValue(i)

\* C5 witness: two acknowledgements were sent, the second larger than the
\* first and larger than the declared size
C5_Witness ==
    Len(acks) >= 2 /\ AckValue(1) < AckValue(2) /\ AckValue(2) > acks[2].declared

\* C6 as claimed: once the session is torn down with the chunks summing to the
\* declared size, the last acknowledgement carries the declared size,
\* whatever the probe reported.
C6_LastAckIsSize ==
    (exited /\ received_bytes = size /\ received_bytes > 0)
        => (acks # << >> /\ AckValue(Len(acks)) = size)

\* C6 as amended: once the session is torn down with the chunks summing to the
\* declared size, the last acknowledgement carries the declared size provided
\* force-response is on or the probe reported writable for the last chunk.
C6_LastAckIsSizeIfSent ==
    (exited /\ received_bytes = size /\ received_bytes > 0
        /\ (options.force_response \/ ~blocks))
        => (acks # << >> /\ AckValue(Len(acks)) = size)

\* C6 witness: a torn down session of two chunks with force-response on, the
\* probe of the last chunk not writable, whose last acknowledgement is the size
C6_Witness ==
    /\ exited /\ received_bytes = size /\ Len(acks) = 2
    /\ options.force_response /\ blocks
    /\ AckValue(2) = size

\* C7: under the sender policy "target" an offer whose source is not the target
\* bot changes nothing: no field of the session, no data connection, no sink,
\* no reporter thread, nothing sent.
C7_ForeignOfferIgnored ==
    [][\A src \in Sources \ {Bot}, p \in Payloads :
          (options.sender = StrTarget /\ do_dcc(src, p))
              => UNCHANGED <<orchestration, teardown, options, session, handshake, threads, wires, reactor>>]_vars

\* C7 witness: under the policy "target" an offer was delivered and the session
\* has neither a connection, nor a quit, nor an error: the offer was ignored
C7_Witness ==
    /\ options.sender = StrTarget /\ noffers >= 1 /\ reactor = "running"
    /\ nconn = 0 /\ Quits(sent) = 0 /\ watchdog = "armed"

\* C8: an offer without source is accepted only when the sender policy has the
\* entry "server".
C8_SourcelessNeedsServerEntry ==
    [][\A p \in Payloads :
          (do_dcc(NoSource, p) /\ nconn' = nconn + 1) => StrServer \in SenderEntries]_vars

\* C9 as claimed: an authorized offer of five tokens whose subcommand is not SEND
\* sends the quit and leaves dcc, size, original_filename, the sink and the
\* data connections as they were.
C9_NonSendQuits ==
    [][\A src \in Sources, p \in Payloads :
          (do_dcc(src, p) /\ check_source(src, FALSE) /\ Len(p) = 5 /\ p[1] # "SEND")
              => /\ sent' = Append(sent, QuitOut)
                 /\ UNCHANGED <<dcc, size, original_filename, stream, nstream, conns,
                                nconn>>]_vars

\* C9 as amended: such an offer leaves dcc, size, original_filename, the sink
\* and the data connections as they were, and sends the quit unless the final
\* status was already reported, in which case the quit was sent before.
C9_NonSendQuitsOnce ==
    [][\A src \in Sources, p \in Payloads :
          (do_dcc(src, p) /\ check_source(src, FALSE) /\ Len(p) = 5 /\ p[1] # "SEND")
              => /\ sent' = IF exited THEN sent ELSE Append(sent, QuitOut)
                 /\ Quits(sent') >= 1
                 /\ UNCHANGED <<dcc, size, original_filename, stream, nstream, conns,
                                nconn, reactor>>]_vars

\* C9 witness: the first offer of the session led to a quit and no connection
C9_Witness ==
    /\ noffers = 1 /\ reactor = "running" /\ watchdog = "armed"
    /\ nconn = 0 /\ dcc = NoDcc /\ Quits(sent) = 1 /\ stream = "unset"

\* C10: an authorized offer whose payload has not exactly five tokens sends the
\* quit, opens no data connection and does not end in an unhandled error.
C10_MalformedIsViolation ==
    [][\A src \in Sources, p \in Payloads :
          (do_dcc(src, p) /\ check_source(src, FALSE) /\ Len(p) # 5)
              => (reactor' # "crashed" /\ Quits(sent') >= 1 /\ nconn' = nconn)]_vars

\* the positions in out of the file request to the bot
Requests(out) == {i \in DOMAIN out : out[i] = PrivmsgOut(Bot, self_cmd)}

\* C13: the file request is sent to the bot at most once, and where it was sent
\* every configured pre-message was sent before it, to its own target with its
\* own text, and the required channel, when one is configured, was joined.
C13_RequestOnlyLast ==
    /\ Cardinality(Requests(sent)) <= 1
    /\ \A i \in Requests(sent) :
          /\ \A k \in DOMAIN options.message :
                \E j \in 1..(i - 1) :
                    sent[j] = PrivmsgOut(options.message[k].target,
                                         options.message[k].text)
          /\ (options.channel # NoChannel => options.channel \in channels)

\* the channel whose join confirmation the suspended run waits for
AwaitedChannel ==
    IF client_state.pc = "y108" THEN options.message[client_state.k].target
    ELSE IF client_state.pc = "y117" THEN options.channel
    ELSE NoChannel

\* C14: when the own-nick join confirmation for the channel of a pre-message
\* arrives, the sequencer resumes without error, records the channel as joined
\* and sends the pre-message; when that was the last step, the file request is
\* issued and the watchdog started.
C14_ResumeSendsPreMessage ==
    [][\A chan \in {Chan, OtherChan} :
          (on_join(OwnNick, chan) /\ client_state.pc = "y108" /\ chan = AwaitedChannel)
              => /\ reactor' = "running"
                 /\ chan \in channels'
                 /\ Len(sent') > Len(sent)
                 /\ sent'[Len(sent) + 1].op = "privmsg"
                 /\ (client_state'.pc = "end" /\ dcc = NoDcc => watchdog' = "armed")]_vars

\* C15: a join event that is not the own-nick confirmation for the awaited
\* channel leaves the sequencer where it is: nothing is sent, no channel is
\* recorded, no watchdog is started.
C15_OnlyMatchingJoinResumes ==
    [][\A nick \in {OwnNick, Eve}, chan \in {Chan, OtherChan} :
          (on_join(nick, chan) /\ ~(nick = OwnNick /\ chan = AwaitedChannel))
              => UNCHANGED <<handshake, sent, watchdog, reactor, last_str>>]_vars

\* C16: once teardown has cleared dcc (a connection was opened and dcc is None),
\* dcc stays None.
C16_DccNeverSetAgain ==
    [][(dcc = NoDcc /\ nconn >= 1) => dcc' = NoDcc]_vars

\* C17: after one SEND offer has been accepted, a further authorized SEND offer
\* leaves original_filename, size, the sink and dcc as they were and opens no
\* data connection.
C17_SecondOfferChangesNothing ==
    [][\A src \in Sources, p \in Payloads :
          (do_dcc(src, p) /\ nconn >= 1 /\ check_source(src, FALSE)
              /\ Len(p) = 5 /\ p[1] = "SEND")
              => UNCHANGED <<original_filename, size, stream, nstream, dcc, conns,
                             nconn>>]_vars

\* C18: while the data connection is open with received_bytes equal to the
\* declared size, a grace Timer is pending and the watchdog does not abort; when
\* the Timer fires with the connection still open it closes the sink and the
\* connection, clears dcc, and the quit and the final status "Download complete"
\* are out.
C18_GraceTimerTearsDown ==
    /\ []((dcc # NoDcc /\ received_bytes = size) => timers > 0)
    /\ [][(dcc # NoDcc /\ received_bytes = size /\ timers > 0 /\ watchdog # "aborted")
             => watchdog' # "aborted"]_vars
    /\ [][(drop_connection /\ dcc # NoDcc /\ received_bytes = size)
             => /\ stream' = "closed"
                /\ dcc' = NoDcc
                /\ conns' = conns \ {dcc}
                /\ Quits(sent') >= 1
                /\ exited'
                /\ report' = "Download complete"]_vars

\* C20: once the handshake has run to its end a watchdog has been started, and
\* a watchdog step taken after the final status was reported sends nothing.
C20_OneWatchdog ==
    /\ []((client_state.pc = "end" /\ reactor = "running") => watchdog # "none")
    /\ [][(exited /\ (await_timeout_armed \/ await_timeout_tick)) => sent' = sent]_vars

\* C19: a chunk handled by on_dccmsg whose probe found the connection not
\* writable: with force-response off no acknowledgement is sent and the warning
\* and the early-reset flag stay as they are; with force-response on the
\* acknowledgement is sent with the warning and the early-reset flag raised,
\* and afterwards the warning is empty. When the probe found it writable the
\* acknowledgement is sent and the warning and the flag stay as they are.
C19_ProbeGovernsWarning ==
    [][\A c \in conns, n \in 1..MaxBytes, blk \in BOOLEAN :
          (on_dccmsg(c, n, blk) /\ stream = "open")
              => IF blk /\ ~options.force_response
                 THEN UNCHANGED <<acks, warning, refresh_timeout, short_warning>>
                 ELSE /\ Len(acks') = Len(acks) + 1
                      /\ SubSeq(acks', 1, Len(acks)) = acks
                      /\ unpack(acks'[Len(acks')].pkt) = received_bytes'
                      /\ IF blk
                         THEN /\ acks'[Len(acks')].warning = StuckWarning
                              /\ acks'[Len(acks')].refresh
                              /\ refresh_timeout'
                              /\ warning' = ""
                         ELSE /\ acks'[Len(acks')].warning = warning
                              /\ acks'[Len(acks')].refresh = refresh_timeout
                              /\ UNCHANGED <<warning, refresh_timeout,
                                             short_warning>>]_vars

\* C19 witness: with force-response on, the last chunk found the connection not
\* writable, its acknowledgement went out under the raised warning and flag, and
\* the warning is empty again
C19_Witness ==
    /\ options.force_response /\ blocks /\ acks # << >>
    /\ acks[Len(acks)].warning = StuckWarning /\ acks[Len(acks)].refresh
    /\ warning = "" /\ refresh_timeout

RECURSIVE flatten(_)
\* the identifiers of a list of ranges, in order
flatten(list) == IF list = << >> THEN << >> ELSE Head(list) \o flatten(Tail(list))

\* C11: in batch mode the sessions are created one at a time, in the order of
\* the expanded identifier list; every session before the last one created
\* succeeded; when a session's download has returned without success batch has
\* returned False (and when an error left the session, batch is over with that
\* error), no later session being created; batch returns True only when a
\* session was run for every identifier and each succeeded.
C11_BatchStopsAtFirstFailure ==
    LET expanded == flatten(id_iterator_list)
        n == Len(outcomes)
    IN /\ Len(created) <= Len(expanded)
       /\ created = SubSeq(expanded, 1, Len(created))
       /\ n <= Len(created) /\ Len(created) <= n + 1
       /\ (batch_pc = "session" <=> Len(created) = n + 1)
       /\ \A k \in 1..(Len(created) - 1) : outcomes[k] = "True"
       /\ (n >= 1 /\ outcomes[n] # "True")
             => /\ batch_pc = "returned"
                /\ Len(created) = n
                /\ batch_result = IF outcomes[n] = "raised" THEN "raised" ELSE "False"
       /\ batch_result = "True"
             => /\ batch_pc = "returned"
                /\ created = expanded
                /\ n = Len(expanded)
                /\ \A k \in 1..n : outcomes[k] = "True"

\* C11 witness: of at least two identifiers the first one's session ended
\* without success and batch returned False with that one session created
C11_Witness ==
    /\ Len(flatten(id_iterator_list)) >= 2
    /\ Len(created) = 1 /\ outcomes = <<"False">>
    /\ batch_pc = "returned" /\ batch_result = "False"

\* the threads that have passed the test of on_dcc_disconnect and not yet
\* cleared dcc
InTeardownBody == {t \in Threads : teardown_pc[t] \in {"body", "clear"}}

\* C12: the teardown body is executed at most once, whichever threads enter
\* on_dcc_disconnect: no two threads are inside the body together, no thread
\* dereferences a cleared dcc, and a thread that runs the body of a session whose
\* dcc another thread has cleared sends no quit.
C12_TeardownBodyOnce ==
    /\ [](Cardinality(InTeardownBody) <= 1)
    /\ [](teardown_pc["timer"] # "raised")
    /\ [][\A t \in Threads : (teardown_body(t) /\ dcc = NoDcc) => sent' = sent]_vars

====
